---- MODULE Spec2Model ----
(***************************************************************************)
(* Model of the frontend log collector of tauri-plugin-debug-tools         *)
(* (guest-js/consoleLogger.ts, class ConsoleLogCollector).                 *)
(*                                                                         *)
(* One step of the model is one task of the JavaScript event loop: a call  *)
(* of a public method, a window event, a timer callback or the settling of *)
(* a host call, each run to completion together with the microtasks it     *)
(* queues.  The methods of the class are operators from collector state to *)
(* collector state, composed in the order the code calls them.             *)
(***************************************************************************)
EXTENDS Integers, Sequences, FiniteSets, TLC

\* ---------------------------------------------------------------- bounds
\* Capacity of the ring buffer.  The source sets 1000 (consoleLogger.ts:17);
\* the model checks the same code with a capacity small enough to overflow.
maxLogs == 3
\* Capacity of the pending queue.  The source sets 200 (consoleLogger.ts:21);
\* scaled like maxLogs, and kept below it as in the source.
maxPendingLogs == 2
\* Number of entries recorded in one behaviour of Spec.
MaxAppends == 3
\* Number of entries recorded in one behaviour of ReadSpec.
MaxReadAppends == 4
\* Arguments tried for getRecentLogs: -MaxCount .. MaxCount.
MaxCount == 3
\* Number of entries recorded in one behaviour of EntrySpec.
MaxEntryAppends == 2
\* Number of entries recorded in one behaviour of SnapSpec.
MaxSnapAppends == 4
\* Length up to which a caller grows an array it holds, in SnapSpec.
MaxSnapLen == 3
MaxArgs == 2
MaxFormatAppends == 1
MaxWindows == 2
MaxLines == 3

\* ------------------------------------------------------------- constants
NULL == 0
Levels == {"log", "warn", "error", "info", "debug"}
\* The levels recorded under Spec by record and the facade.  No method on
\* the delivery path reads entry.level, so one level stands for the five next
\* to the error entries of the hooks; ReadSpec records all five.
SpecLevels == {"info"}

VARIABLES
  hasWindow,      \* typeof window !== "undefined"
  tauriCore,      \* window.__TAURI__.core is present at construction
  constructed,    \* the singleton has been constructed
  readyListener,  \* a "tauri://ready" listener is registered
  errorHooks,     \* the "error" / "unhandledrejection" listeners are registered
  logs,           \* this.logs
  pendingLogs,    \* this.pendingLogs
  flushTimer,     \* this.flushTimer (NULL or a timer handle)
  tauriReady,     \* this.tauriReady
  logsReset,      \* this.logsReset
  timers,         \* number of timeouts armed in the window and not yet fired
  resetCalls,     \* invoke("...|reset_debug_logs") calls, in issue order
  appendCalls,    \* invoke("...|append_debug_logs") calls, in issue order
  consoleOut,     \* calls made on originalConsole by the latest step
  nextId,         \* identity of the next entry object
  sinceClear,     \* history: entries appended since the last clearLogs
  pendingAtReady, \* history: pendingLogs when tauriReady turned true
  recordedAfterReady, \* history: an entry was recorded while tauriReady
  ret,            \* the latest step: the value a read call returned, the
                  \* exception a recording call threw, or a timer callback
  snap            \* an array returned by a read call and held by the caller

vars == <<hasWindow, tauriCore, constructed, readyListener, errorHooks, logs,
          pendingLogs, flushTimer, tauriReady, logsReset, timers, resetCalls,
          appendCalls, consoleOut, nextId, sinceClear, pendingAtReady,
          recordedAfterReady, ret, snap>>

\* The collector and its environment as one record, for the method operators.
Cur ==
  [hasWindow |-> hasWindow, tauriCore |-> tauriCore,
   readyListener |-> readyListener, errorHooks |-> errorHooks,
   logs |-> logs, pendingLogs |-> pendingLogs, flushTimer |-> flushTimer,
   tauriReady |-> tauriReady, logsReset |-> logsReset, timers |-> timers,
   resetCalls |-> resetCalls, appendCalls |-> appendCalls,
   consoleOut |-> <<>>, nextId |-> nextId, snap |-> snap, threw |-> FALSE]

\* ------------------------------------------------------ array primitives
\* Array.prototype.slice(start): a negative start counts from the end, and
\* -0 is 0.
slice(arr, start) ==
  LET len == Len(arr)
      k == IF start < 0
             THEN (IF len + start > 0 THEN len + start ELSE 0)
             ELSE (IF start < len THEN start ELSE len)
  IN SubSeq(arr, k + 1, len)

\* Array.prototype.shift(): the array without its first element.
shift(arr) == IF Len(arr) = 0 THEN arr ELSE Tail(arr)

\* An array object a caller holds: its contents, and whether it is the very
\* object this.logs refers to.
NoSnap == [held |-> FALSE, value |-> <<>>, sameObject |-> FALSE]
NewArray(arr) == [held |-> TRUE, value |-> arr, sameObject |-> FALSE]

\* push / shift on this.logs change the array object in place: a holder of
\* the same object sees the change.
inPlace(s, arr) ==
  [s EXCEPT !.logs = arr,
            !.snap = IF @.sameObject THEN [@ EXCEPT !.value = arr] ELSE @]

\* ------------------------------------------------------------ JS values
\* A stack string is the sequence of its lines; <<>> is an absent stack
\* (undefined), which no string is.  A line is its indentation, its text
\* and the markers that String.prototype.includes / startsWith find in it.
NoStack == <<>>
Line(indent, text, marks) == [indent |-> indent, text |-> text, marks |-> marks]
includes(line, marker) == marker \in line.marks
startsWith(line, marker) == ("^" \o marker) \in line.marks
trim(line) == [line EXCEPT !.indent = 0]

Header == Line(0, "Error", {"^Error"})
BoomHeader == Line(0, "Error: boom", {"^Error"})
InternalFrame ==
  Line(4, "at ConsoleLogCollector.record (guest-js/consoleLogger.ts:217:36)",
       {"consoleLogger", "ConsoleLogCollector", "guest-js"})
VendorFrame ==
  Line(4, "at render (node_modules/react-dom/index.js:1:1)", {"node_modules"})
AppFrame == Line(4, "at doWork (app.ts:1:1)", {})
\* A frame as JavaScriptCore and SpiderMonkey write it (name@url:line:col,
\* no "at", and no header line in the stack), of a function whose name
\* begins with Error.
ErrorNamedFrame == Line(0, "ErrorBoundary@app.tsx:10:5", {"^Error"})

\* The values passed to the collector: strings, Error objects, objects that
\* JSON.stringify serializes, objects it throws on, and undefined.  Hostile
\* is an object that JSON.stringify throws on and that has no string
\* coercion either (a cyclic object without prototype), so String(arg)
\* throws a TypeError.
Str(text) == [kind |-> "string", text |-> text, name |-> "", stack |-> NoStack]
Err(name, message, stack) ==
  [kind |-> "error", text |-> message, name |-> name, stack |-> stack]
Obj(json) == [kind |-> "object", text |-> json, name |-> "", stack |-> NoStack]
Circular ==
  [kind |-> "circular", text |-> "[object Object]", name |-> "", stack |-> NoStack]
Undefined == [kind |-> "undefined", text |-> "", name |-> "", stack |-> NoStack]
Hostile == [kind |-> "hostile", text |-> "", name |-> "", stack |-> NoStack]

\* Array.prototype.join(" ") over strings.
RECURSIVE join(_)
join(strs) ==
  IF Len(strs) = 0 THEN ""
  ELSE IF Len(strs) = 1 THEN strs[1]
  ELSE strs[1] \o " " \o join(Tail(strs))

\* The callback of formatArgs.  JSON.stringify throws on a circular object,
\* and String(arg) is used; it returns undefined for undefined, which join
\* renders as the empty string.
formatArg(arg) ==
  IF arg.kind = "string" THEN arg.text
  ELSE IF arg.kind = "error" THEN arg.name \o ": " \o arg.text
  ELSE IF arg.kind = "circular" THEN arg.text
  ELSE IF arg.kind = "undefined" THEN ""
  ELSE arg.text

formatArgs(args) == join([i \in 1..Len(args) |-> formatArg(args[i])])

\* The callback of formatArgs throws: String(arg) in its catch block throws,
\* and nothing catches that.
formatArgThrows(arg) == arg.kind = "hostile"

formatArgsThrows(args) == \E i \in 1..Len(args) : formatArgThrows(args[i])

\* ---------------------------------------------------------------- stacks
Skipped(line) ==
  \/ includes(line, "debugTools")
  \/ includes(line, "consoleLogger")
  \/ includes(line, "ConsoleLogCollector")
  \/ includes(line, "node_modules")
  \/ includes(line, "react-dom_client")
  \/ includes(line, "guest-js")
  \/ includes(line, "dist-js")
  \/ startsWith(line, "Error")

\* formatOrigin: the text of the first line that is not skipped, or "" for
\* undefined.  Lines that are empty after trim are dropped by filter(Boolean).
formatOrigin(stack) ==
  LET lines == SelectSeq([i \in 1..Len(stack) |-> trim(stack[i])],
                         LAMBDA l : l.text # "")
      kept == SelectSeq(lines, LAMBDA l : ~Skipped(l))
  IN IF stack = NoStack \/ stack = <<Line(0, "", {})>> THEN ""
     ELSE IF Len(kept) = 0 THEN "" ELSE kept[1].text

\* buildOrigin: captured is new Error().stack at the call.
buildOrigin(captured) == [origin |-> formatOrigin(captured), stack |-> captured]

withOriginArgs(args, origin) ==
  IF origin # "" THEN Append(args, Str("[origin] " \o origin)) ELSE args

\* Mutant of cleanStack: the frames are filtered by the markers of
\* formatOrigin.
cleanStack_skipped(stack) ==
  IF Len(stack) <= 1 THEN NoStack
  ELSE LET filtered == SelectSeq(Tail(stack), LAMBDA l : ~Skipped(l))
       IN IF Len(filtered) = 0 THEN NoStack ELSE <<stack[1]>> \o filtered

\* cleanStack: NoStack stands for its null result.
cleanStack(stack) ==
  IF Len(stack) <= 1 THEN NoStack
  ELSE LET filtered ==
             SelectSeq(SelectSeq(Tail(stack),
                                 LAMBDA l : ~includes(l, "consoleLogger")),
                       LAMBDA l : ~includes(l, "ConsoleLogCollector"))
       IN IF Len(filtered) = 0 THEN NoStack ELSE <<stack[1]>> \o filtered

\* Mutant of normalizeStack: no fallback to the raw stack when cleanStack
\* returns null.
normalizeStack_noFallback(stack) ==
  IF stack = NoStack \/ stack = <<Line(0, "", {})>> THEN NoStack
  ELSE cleanStack(stack)

normalizeStack(stack) ==
  IF stack = NoStack \/ stack = <<Line(0, "", {})>> THEN NoStack
  ELSE LET cleaned == cleanStack(stack)
       IN IF cleaned # NoStack THEN cleaned ELSE stack

\* A call on originalConsole: the channel, the arguments, and the number of
\* entries recorded so far when it is made.
ConsoleCall(s, channel, args) ==
  [channel |-> channel, args |-> args, recorded |-> s.nextId - 1]

\* ------------------------------------------------------------ scheduling
\* Mutant of scheduleFlush: the test of this.flushTimer is missing.
scheduleFlush_noGuard(s) ==
  IF ~s.hasWindow THEN s
  ELSE [s EXCEPT !.flushTimer = 1, !.timers = @ + 1]

scheduleFlush(s) ==
  IF ~s.hasWindow THEN s
  ELSE IF s.flushTimer # NULL THEN s
  ELSE [s EXCEPT !.flushTimer = 1, !.timers = @ + 1]

\* Mutant of flushPending: while a reset call is in flight the flush is put
\* off to the next timer.
flushPending_awaitReset(s) ==
  IF ~s.tauriReady
       \/ \E i \in 1..Len(s.resetCalls) : s.resetCalls[i].status = "inflight"
    THEN scheduleFlush(s)
  ELSE IF Len(s.pendingLogs) = 0 THEN s
  ELSE [s EXCEPT !.pendingLogs = <<>>,
                 !.appendCalls = Append(@, [batch |-> s.pendingLogs,
                                            status |-> "inflight",
                                            promise |-> "pending"])]

\* Mutant of flushPending: the test for an empty queue is missing.
flushPending_sendsEmpty(s) ==
  IF ~s.tauriReady THEN scheduleFlush(s)
  ELSE [s EXCEPT !.pendingLogs = <<>>,
                 !.appendCalls = Append(@, [batch |-> s.pendingLogs,
                                            status |-> "inflight",
                                            promise |-> "pending"])]

\* Mutant of flushPending: the batch is a copy of the queue and the splice
\* leaves the newest entry behind.
flushPending_keepNewest(s) ==
  IF ~s.tauriReady THEN scheduleFlush(s)
  ELSE IF Len(s.pendingLogs) = 0 THEN s
  ELSE [s EXCEPT !.pendingLogs = <<s.pendingLogs[Len(s.pendingLogs)]>>,
                 !.appendCalls = Append(@, [batch |-> s.pendingLogs,
                                            status |-> "inflight",
                                            promise |-> "pending"])]

\* Mutant of flushPending: the readiness check is missing.
flushPending_ungated(s) ==
  IF Len(s.pendingLogs) = 0 THEN s
  ELSE [s EXCEPT !.pendingLogs = <<>>,
                 !.appendCalls = Append(@, [batch |-> s.pendingLogs,
                                            status |-> "inflight",
                                            promise |-> "pending"])]

\* Mutant of flushPending: the batch is copied (slice) instead of removed
\* (splice), so the queue keeps the entries it has handed over.
flushPending_noDrain(s) ==
  IF ~s.tauriReady THEN scheduleFlush(s)
  ELSE IF Len(s.pendingLogs) = 0 THEN s
  ELSE [s EXCEPT !.appendCalls = Append(@, [batch |-> s.pendingLogs,
                                            status |-> "inflight",
                                            promise |-> "pending"])]

\* Mutant of flushPending: the drain also empties this.logs.
flushPending_drainsLogs(s) ==
  IF ~s.tauriReady THEN scheduleFlush(s)
  ELSE IF Len(s.pendingLogs) = 0 THEN s
  ELSE [s EXCEPT !.pendingLogs = <<>>,
                 !.logs = <<>>,
                 !.appendCalls = Append(@, [batch |-> s.pendingLogs,
                                            status |-> "inflight",
                                            promise |-> "pending"])]

\* Mutant of flushPending: not ready, it returns without a new timer.
flushPending_noRearm(s) ==
  IF ~s.tauriReady THEN s
  ELSE IF Len(s.pendingLogs) = 0 THEN s
  ELSE [s EXCEPT !.pendingLogs = <<>>,
                 !.appendCalls = Append(@, [batch |-> s.pendingLogs,
                                            status |-> "inflight",
                                            promise |-> "pending"])]

\* Mutant of flushPending: with an empty queue it arms a timer to look again.
flushPending_poll(s) ==
  IF ~s.tauriReady THEN scheduleFlush(s)
  ELSE IF Len(s.pendingLogs) = 0 THEN scheduleFlush(s)
  ELSE [s EXCEPT !.pendingLogs = <<>>,
                 !.appendCalls = Append(@, [batch |-> s.pendingLogs,
                                            status |-> "inflight",
                                            promise |-> "pending"])]

\* Mutant of flushPending: splice(0, 1), so only the oldest entry is taken.
flushPending_partial(s) ==
  IF ~s.tauriReady THEN scheduleFlush(s)
  ELSE IF Len(s.pendingLogs) = 0 THEN s
  ELSE [s EXCEPT !.pendingLogs = Tail(s.pendingLogs),
                 !.appendCalls = Append(@, [batch |-> <<s.pendingLogs[1]>>,
                                            status |-> "inflight",
                                            promise |-> "pending"])]

\* Mutant of flushPending: one delivery at a time; while a call is in flight
\* the flush is put off to the next timer.
flushPending_oneAtATime(s) ==
  IF ~s.tauriReady THEN scheduleFlush(s)
  ELSE IF Len(s.pendingLogs) = 0 THEN s
  ELSE IF \E i \in 1..Len(s.appendCalls) : s.appendCalls[i].status = "inflight"
    THEN scheduleFlush(s)
  ELSE [s EXCEPT !.pendingLogs = <<>>,
                 !.appendCalls = Append(@, [batch |-> s.pendingLogs,
                                            status |-> "inflight",
                                            promise |-> "pending"])]

\* flushPending up to its await: the drain and the delivery call.
flushPending(s) ==
  IF ~s.tauriReady THEN scheduleFlush(s)
  ELSE IF Len(s.pendingLogs) = 0 THEN s
  ELSE [s EXCEPT !.pendingLogs = <<>>,
                 !.appendCalls = Append(@, [batch |-> s.pendingLogs,
                                            status |-> "inflight",
                                            promise |-> "pending"])]

\* Mutant of flushSettled: the catch block puts the failed batch back at the
\* head of the queue for a retry.
flushSettled_requeue(s, i, ok) ==
  IF ok
    THEN [s EXCEPT !.appendCalls[i].status = "ok",
                   !.appendCalls[i].promise = "fulfilled"]
    ELSE scheduleFlush(
           [s EXCEPT !.appendCalls[i].status = "failed",
                     !.appendCalls[i].promise = "fulfilled",
                     !.pendingLogs = s.appendCalls[i].batch \o @,
                     !.consoleOut = Append(@, ConsoleCall(s, "error",
                                     <<Str("[debug] append logs failed")>>))])

\* Mutant of flushSettled: the catch block empties the queue.
flushSettled_dropPending(s, i, ok) ==
  IF ok
    THEN [s EXCEPT !.appendCalls[i].status = "ok",
                   !.appendCalls[i].promise = "fulfilled"]
    ELSE [s EXCEPT !.appendCalls[i].status = "failed",
                   !.appendCalls[i].promise = "fulfilled",
                   !.pendingLogs = <<>>,
                   !.consoleOut = Append(@, ConsoleCall(s, "error",
                                     <<Str("[debug] append logs failed")>>))]

\* flushPending after its await, for delivery call i: the try/catch.
flushSettled(s, i, ok) ==
  IF ok
    THEN [s EXCEPT !.appendCalls[i].status = "ok",
                   !.appendCalls[i].promise = "fulfilled"]
    ELSE [s EXCEPT !.appendCalls[i].status = "failed",
                   !.appendCalls[i].promise = "fulfilled",
                   !.consoleOut = Append(@, ConsoleCall(s, "error",
                                     <<Str("[debug] append logs failed")>>))]

\* -------------------------------------------------------------- recording
\* Mutant of enqueuePending: pop() instead of shift(), dropping the newest.
enqueuePending_popNewest(s, entry) ==
  LET s1 == [s EXCEPT !.pendingLogs = Append(@, entry)]
      s2 == IF Len(s1.pendingLogs) > maxPendingLogs
              THEN [s1 EXCEPT !.pendingLogs = SubSeq(@, 1, Len(@) - 1)]
              ELSE s1
  IN scheduleFlush(s2)

\* Mutant of enqueuePending: no flush is requested.
enqueuePending_noSchedule(s, entry) ==
  LET s1 == [s EXCEPT !.pendingLogs = Append(@, entry)]
  IN IF Len(s1.pendingLogs) > maxPendingLogs
       THEN [s1 EXCEPT !.pendingLogs = shift(@)]
       ELSE s1

enqueuePending(s, entry) ==
  LET s1 == [s EXCEPT !.pendingLogs = Append(@, entry)]
      s2 == IF Len(s1.pendingLogs) > maxPendingLogs
              THEN [s1 EXCEPT !.pendingLogs = shift(@)]
              ELSE s1
  IN scheduleFlush(s2)

\* Mutant of addLog: the overflow test is >= instead of >.
addLog_offByOne(s, level, args, stack_trace) ==
  LET entry == [id |-> s.nextId, level |-> level,
                message |-> formatArgs(args), stack_trace |-> stack_trace]
      s1 == [inPlace(s, Append(s.logs, entry)) EXCEPT !.nextId = @ + 1]
      s2 == enqueuePending(s1, entry)
  IN IF Len(s2.logs) >= maxLogs THEN inPlace(s2, shift(s2.logs)) ELSE s2

\* Mutant of addLog: the shift of the ring buffer also shifts the queue.
addLog_evictBoth(s, level, args, stack_trace) ==
  LET entry == [id |-> s.nextId, level |-> level,
                message |-> formatArgs(args), stack_trace |-> stack_trace]
      s1 == [inPlace(s, Append(s.logs, entry)) EXCEPT !.nextId = @ + 1]
      s2 == enqueuePending(s1, entry)
  IN IF formatArgsThrows(args) THEN [s EXCEPT !.threw = TRUE]
     ELSE IF Len(s2.logs) > maxLogs
       THEN [inPlace(s2, shift(s2.logs)) EXCEPT !.pendingLogs = shift(@)]
     ELSE s2

\* addLog.  The entry object is identified by id (the model does not keep
\* its timestamp and its args array).  When formatArgs throws, the exception
\* leaves addLog before anything is pushed.
addLog(s, level, args, stack_trace) ==
  LET entry == [id |-> s.nextId, level |-> level,
                message |-> formatArgs(args), stack_trace |-> stack_trace]
      s1 == [inPlace(s, Append(s.logs, entry)) EXCEPT !.nextId = @ + 1]
      s2 == enqueuePending(s1, entry)
  IN IF formatArgsThrows(args) THEN [s EXCEPT !.threw = TRUE]
     ELSE IF Len(s2.logs) > maxLogs THEN inPlace(s2, shift(s2.logs)) ELSE s2

\* record: captured is the stack of the Error made by buildOrigin.
record(s, level, args, captured) ==
  LET b == buildOrigin(captured)
      enrichedArgs == withOriginArgs(args, b.origin)
  IN addLog(s, level, enrichedArgs, normalizeStack(b.stack))

\* Mutant of facade: record first, the original console after it.
facade_recordFirst(s, level, args, captured) ==
  LET b == buildOrigin(captured)
      enrichedArgs == withOriginArgs(args, b.origin)
      s1 == record(s, level, args, captured)
  IN [s1 EXCEPT !.consoleOut = Append(@, ConsoleCall(s1, level, enrichedArgs))]

\* log / info / warn / error / debug: the original console channel of the
\* method, then record.
facade(s, level, args, captured) ==
  LET b == buildOrigin(captured)
      enrichedArgs == withOriginArgs(args, b.origin)
      s1 == [s EXCEPT !.consoleOut = Append(@, ConsoleCall(s, level, enrichedArgs))]
  IN record(s1, level, args, captured)

\* Mutant of onError: the entry is recorded at level warn.
onError_warn(s, event) ==
  LET error == event.error
      message == IF event.message # "" THEN event.message
                 ELSE IF error.kind = "error" /\ error.text # "" THEN error.text
                 ELSE "Unhandled error"
      stack == normalizeStack(IF error.kind = "error" THEN error.stack ELSE NoStack)
  IN addLog(s, "warn", <<Str(message)>>, stack)

\* The "error" listener of setupErrorHandlers.  event.message is "" when the
\* event has none, event.error is Undefined when it has none.
onError(s, event) ==
  LET error == event.error
      message == IF event.message # "" THEN event.message
                 ELSE IF error.kind = "error" /\ error.text # "" THEN error.text
                 ELSE "Unhandled error"
      stack == normalizeStack(IF error.kind = "error" THEN error.stack ELSE NoStack)
  IN addLog(s, "error", <<Str(message)>>, stack)

\* The "unhandledrejection" listener of setupErrorHandlers.  For the other
\* reasons the message is JSON.stringify(reason) or, when that throws,
\* String(reason).
onUnhandledRejection(s, reason) ==
  LET message == IF reason.kind = "error" THEN reason.text
                 ELSE IF reason.kind = "string" THEN reason.text
                 ELSE IF reason.kind = "undefined" THEN "Unhandled promise rejection"
                 ELSE IF reason.kind = "circular" THEN reason.text
                 ELSE reason.text
      stack == IF reason.kind = "error" THEN reason.stack ELSE NoStack
  IN addLog(s, "error", <<Str(message), reason>>, normalizeStack(stack))

\* -------------------------------------------------------------- readiness
\* Mutant of resetLogsFile: the logsReset test is missing.
resetLogsFile_noLatch(s) ==
  LET s1 == [s EXCEPT !.logsReset = TRUE]
  IN [s1 EXCEPT !.resetCalls = Append(@, [status |-> "inflight",
                                          latch |-> s1.logsReset,
                                          ready |-> s1.tauriReady])]

\* resetLogsFile up to its await.  A reset call keeps the values logsReset
\* and tauriReady have when invoke is called.
resetLogsFile(s) ==
  IF s.logsReset THEN s
  ELSE LET s1 == [s EXCEPT !.logsReset = TRUE]
       IN [s1 EXCEPT !.resetCalls = Append(@, [status |-> "inflight",
                                               latch |-> s1.logsReset,
                                               ready |-> s1.tauriReady])]

\* Mutant of handleTauriReady: the host is not asked to reset.
handleTauriReady_noReset(s) ==
  flushPending([s EXCEPT !.tauriReady = TRUE])

\* Mutant of handleTauriReady: the flush does not wait for the reset call.
handleTauriReady_flushNow(s) ==
  LET s1 == [s EXCEPT !.tauriReady = TRUE]
      s2 == resetLogsFile(s1)
  IN flushPending(s2)

\* handleTauriReady.  When resetLogsFile returns without a host call its
\* promise is already fulfilled, and the finally callback (flushPending) runs
\* as a microtask of the same task; otherwise it waits for the call to settle.
handleTauriReady(s) ==
  LET s1 == [s EXCEPT !.tauriReady = TRUE]
      s2 == resetLogsFile(s1)
  IN IF s1.logsReset THEN flushPending(s2) ELSE s2

\* Mutant of resetSettled: a rejected reset turns tauriReady off again.
resetSettled_notReady(s, i, ok) ==
  LET s1 == IF ok
              THEN [s EXCEPT !.resetCalls[i].status = "ok"]
              ELSE [s EXCEPT !.resetCalls[i].status = "failed",
                             !.tauriReady = FALSE,
                             !.consoleOut = Append(@, ConsoleCall(s, "error",
                                     <<Str("[debug] reset logs failed")>>))]
  IN flushPending(s1)

\* Mutant of resetSettled: then() instead of finally(), so a rejected reset
\* is not followed by the flush.
resetSettled_then(s, i, ok) ==
  IF ok
    THEN flushPending([s EXCEPT !.resetCalls[i].status = "ok"])
    ELSE [s EXCEPT !.resetCalls[i].status = "failed",
                   !.consoleOut = Append(@, ConsoleCall(s, "error",
                                     <<Str("[debug] reset logs failed")>>))]

\* resetLogsFile after its await for reset call i (the try/catch), followed
\* by the finally callback of handleTauriReady.
resetSettled(s, i, ok) ==
  LET s1 == IF ok
              THEN [s EXCEPT !.resetCalls[i].status = "ok"]
              ELSE [s EXCEPT !.resetCalls[i].status = "failed",
                             !.consoleOut = Append(@, ConsoleCall(s, "error",
                                     <<Str("[debug] reset logs failed")>>))]
  IN flushPending(s1)

\* Mutant of setupTauriReadyListener: the return after handleTauriReady is
\* missing, so the listener is added as well.
setupTauriReadyListener_noReturn(s) ==
  IF ~s.hasWindow THEN s
  ELSE IF s.tauriCore THEN [handleTauriReady(s) EXCEPT !.readyListener = TRUE]
  ELSE [s EXCEPT !.readyListener = TRUE]

setupTauriReadyListener(s) ==
  IF ~s.hasWindow THEN s
  ELSE IF s.tauriCore THEN handleTauriReady(s)
  ELSE [s EXCEPT !.readyListener = TRUE]

setupErrorHandlers(s) ==
  IF ~s.hasWindow THEN s ELSE [s EXCEPT !.errorHooks = TRUE]

constructor(s) == setupErrorHandlers(setupTauriReadyListener(s))

\* ----------------------------------------------------------------- reads
\* Mutant of spreadLogs: this.logs itself is returned, not a copy.
spreadLogs_alias(s) == [held |-> TRUE, value |-> s.logs, sameObject |-> TRUE]

\* [...this.logs]: a new array with the same elements.
spreadLogs(s) == NewArray(s.logs)

getLogs(s) == spreadLogs(s).value

\* Mutant of getRecentLogs: slice(count) instead of slice(-count).
getRecentLogs_fromStart(s, count) == slice(s.logs, count)

getRecentLogs(s, count) == slice(s.logs, -count)

\* Array.prototype.filter with the callback of getLogsByLevel, over the
\* first n entries.
RECURSIVE filterLevel(_, _, _)
filterLevel(arr, n, level) ==
  IF n = 0 THEN <<>>
  ELSE LET kept == filterLevel(arr, n - 1, level)
       IN IF arr[n].level = level THEN Append(kept, arr[n]) ELSE kept

\* Mutant of getLogsByLevel: the callback tests !== instead of ===.
getLogsByLevel_negated(s, level) ==
  SelectSeq(s.logs, LAMBDA e : e.level # level)

getLogsByLevel(s, level) == filterLevel(s.logs, Len(s.logs), level)

getErrors(s) == getLogsByLevel(s, "error")

\* Mutant of clearLogs: the pending queue is emptied as well.
clearLogs_withPending(s) ==
  [s EXCEPT !.logs = <<>>, !.pendingLogs = <<>>, !.snap.sameObject = FALSE]

\* this.logs = []: a new array object; the old one is left as it is.
clearLogs(s) == [s EXCEPT !.logs = <<>>, !.snap.sameObject = FALSE]

\* The loop of getStats over the first n entries, from the zero-filled record.
RECURSIVE tally(_, _)
tally(arr, n) ==
  IF n = 0 THEN [l \in Levels |-> 0]
  ELSE LET byLevel == tally(arr, n - 1)
       IN [byLevel EXCEPT ![arr[n].level] = @ + 1]

\* Mutant of getStats: the loop starts at the second entry.
getStats_skipFirst(s) ==
  [total |-> Len(s.logs), byLevel |-> tally(shift(s.logs), Len(shift(s.logs)))]

getStats(s) ==
  [total |-> Len(s.logs), byLevel |-> tally(s.logs, Len(s.logs))]

\* ----------------------------------------------------- screenshot helper
\* A window of getScreenshotableWindows; NoWindow is an undefined element.
Window(id, name, appName, title) ==
  [id |-> id, name |-> name, appName |-> appName, title |-> title]
NoWindow == [id |-> NULL, name |-> "", appName |-> "", title |-> ""]

\* captureMainWindow of screenshotHelper.ts.  windowsOk and shotOk say
\* whether getScreenshotableWindows and getWindowScreenshot resolve.  The
\* function declares no parameter, so the argument of the call is ignored.
\* Reading windows[0].id of an undefined element throws inside the try.
\* target is the id given to getWindowScreenshot, value the path returned.
captureMainWindow(options, windows, windowsOk, shotOk) ==
  IF ~windowsOk
    THEN [target |-> NULL, value |-> NULL, console |-> "error"]
  ELSE IF Len(windows) = 0
    THEN [target |-> NULL, value |-> NULL, console |-> "warn"]
  ELSE IF windows[1] = NoWindow
    THEN [target |-> NULL, value |-> NULL, console |-> "error"]
  ELSE IF ~shotOk
    THEN [target |-> windows[1].id, value |-> NULL, console |-> "error"]
  ELSE [target |-> windows[1].id, value |-> windows[1].id, console |-> "none"]

\* --------------------------------------------------------------- actions
NoRet == [op |-> "none"]

\* What the caller of a recording method gets: nothing, or the exception.
Outcome(s) == IF s.threw THEN [op |-> "throw"] ELSE NoRet

Init ==
  /\ hasWindow \in BOOLEAN
  /\ tauriCore \in BOOLEAN
  /\ (tauriCore => hasWindow)
  /\ constructed = FALSE
  /\ readyListener = FALSE
  /\ errorHooks = FALSE
  /\ logs = <<>>
  /\ pendingLogs = <<>>
  /\ flushTimer = NULL
  /\ tauriReady = FALSE
  /\ logsReset = FALSE
  /\ timers = 0
  /\ resetCalls = <<>>
  /\ appendCalls = <<>>
  /\ consoleOut = <<>>
  /\ nextId = 1
  /\ sinceClear = <<>>
  /\ pendingAtReady = <<>>
  /\ recordedAfterReady = FALSE
  /\ ret = NoRet
  /\ snap = NoSnap

\* The step ends in collector state s; the history variables follow.
Commit(s) ==
  /\ readyListener' = s.readyListener
  /\ errorHooks' = s.errorHooks
  /\ logs' = s.logs
  /\ pendingLogs' = s.pendingLogs
  /\ flushTimer' = s.flushTimer
  /\ tauriReady' = s.tauriReady
  /\ logsReset' = s.logsReset
  /\ timers' = s.timers
  /\ resetCalls' = s.resetCalls
  /\ appendCalls' = s.appendCalls
  /\ consoleOut' = s.consoleOut
  /\ nextId' = s.nextId
  /\ snap' = s.snap
  /\ pendingAtReady' = IF ~tauriReady /\ s.tauriReady THEN pendingLogs
                       ELSE pendingAtReady
  /\ recordedAfterReady' = (recordedAfterReady \/ (tauriReady /\ s.nextId > nextId))
  /\ UNCHANGED <<hasWindow, tauriCore>>

Appended(s) ==
  sinceClear' = IF s.nextId > nextId
                  THEN Append(sinceClear, s.logs[Len(s.logs)])
                  ELSE sinceClear

Construct ==
  /\ ~constructed
  /\ constructed' = TRUE
  /\ Commit(constructor(Cur))
  /\ ret' = NoRet
  /\ UNCHANGED sinceClear

Record(level, args, captured) ==
  /\ constructed
  /\ LET s == record(Cur, level, args, captured)
     IN Commit(s) /\ Appended(s) /\ ret' = Outcome(s)
  /\ UNCHANGED constructed

Facade(level, args, captured) ==
  /\ constructed
  /\ LET s == facade(Cur, level, args, captured)
     IN Commit(s) /\ Appended(s) /\ ret' = Outcome(s)
  /\ UNCHANGED constructed

\* window "error" event.
ErrorEvent(event) ==
  /\ constructed
  /\ errorHooks
  /\ LET s == onError(Cur, event) IN Commit(s) /\ Appended(s)
  /\ ret' = NoRet
  /\ UNCHANGED constructed

\* window "unhandledrejection" event.
UnhandledRejection(reason) ==
  /\ constructed
  /\ errorHooks
  /\ LET s == onUnhandledRejection(Cur, reason) IN Commit(s) /\ Appended(s)
  /\ ret' = NoRet
  /\ UNCHANGED constructed

ClearLogs ==
  /\ constructed
  /\ Commit(clearLogs(Cur))
  /\ sinceClear' = <<>>
  /\ ret' = NoRet
  /\ UNCHANGED constructed

\* The callback given to window.setTimeout by scheduleFlush.
TimerFire ==
  /\ timers > 0
  /\ Commit(flushPending([Cur EXCEPT !.timers = @ - 1, !.flushTimer = NULL]))
  /\ ret' = [op |-> "timer"]
  /\ UNCHANGED <<constructed, sinceClear>>

\* window "tauri://ready" event.
TauriReadyEvent ==
  /\ readyListener
  /\ Commit(handleTauriReady(Cur))
  /\ ret' = NoRet
  /\ UNCHANGED <<constructed, sinceClear>>

ResetSettle(i, ok) ==
  /\ i \in 1..Len(resetCalls)
  /\ resetCalls[i].status = "inflight"
  /\ Commit(resetSettled(Cur, i, ok))
  /\ ret' = NoRet
  /\ UNCHANGED <<constructed, sinceClear>>

AppendSettle(i, ok) ==
  /\ i \in 1..Len(appendCalls)
  /\ appendCalls[i].status = "inflight"
  /\ Commit(flushSettled(Cur, i, ok))
  /\ ret' = NoRet
  /\ UNCHANGED <<constructed, sinceClear>>

\* captureMainWindow(options), from the call to the settling of its promise.
CallCaptureMainWindow(options, windows, windowsOk, shotOk) ==
  /\ ret' = [op |-> "captureMainWindow", options |-> options,
             windows |-> windows, windowsOk |-> windowsOk,
             result |-> captureMainWindow(options, windows, windowsOk, shotOk)]
  /\ Commit(Cur)
  /\ UNCHANGED <<constructed, sinceClear>>

\* ------------------------------------------------------------ read calls
CallGetLogs ==
  /\ constructed
  /\ ret' = [op |-> "getLogs", value |-> getLogs(Cur)]
  /\ Commit(Cur)
  /\ UNCHANGED <<constructed, sinceClear>>

CallGetRecentLogs(count) ==
  /\ constructed
  /\ ret' = [op |-> "getRecentLogs", count |-> count,
             value |-> getRecentLogs(Cur, count)]
  /\ Commit(Cur)
  /\ UNCHANGED <<constructed, sinceClear>>

CallGetLogsByLevel(level) ==
  /\ constructed
  /\ ret' = [op |-> "getLogsByLevel", level |-> level,
             value |-> getLogsByLevel(Cur, level)]
  /\ Commit(Cur)
  /\ UNCHANGED <<constructed, sinceClear>>

CallGetErrors ==
  /\ constructed
  /\ ret' = [op |-> "getErrors", value |-> getErrors(Cur)]
  /\ Commit(Cur)
  /\ UNCHANGED <<constructed, sinceClear>>

CallGetStats ==
  /\ constructed
  /\ ret' = [op |-> "getStats", value |-> getStats(Cur)]
  /\ Commit(Cur)
  /\ UNCHANGED <<constructed, sinceClear>>

\* ------------------------------------------------------- held snapshots
\* The caller keeps the array a read call returns.  filter and slice return
\* new arrays.
HoldGetLogs ==
  /\ constructed
  /\ Commit([Cur EXCEPT !.snap = spreadLogs(Cur)])
  /\ ret' = NoRet
  /\ UNCHANGED <<constructed, sinceClear>>

HoldGetLogsByLevel(level) ==
  /\ constructed
  /\ Commit([Cur EXCEPT !.snap = NewArray(getLogsByLevel(Cur, level))])
  /\ ret' = NoRet
  /\ UNCHANGED <<constructed, sinceClear>>

HoldGetErrors ==
  /\ constructed
  /\ Commit([Cur EXCEPT !.snap = NewArray(getErrors(Cur))])
  /\ ret' = NoRet
  /\ UNCHANGED <<constructed, sinceClear>>

HoldGetRecentLogs(count) ==
  /\ constructed
  /\ Commit([Cur EXCEPT !.snap = NewArray(getRecentLogs(Cur, count))])
  /\ ret' = NoRet
  /\ UNCHANGED <<constructed, sinceClear>>

\* The caller changes the array it holds: push of an object of its own, pop,
\* or reverse.  The change is made to the array object, so it shows in
\* this.logs when that is the same object.
Foreign == [id |-> 0, level |-> "log", message |-> "", stack_trace |-> NoStack]

RECURSIVE reverse(_)
reverse(arr) == IF Len(arr) = 0 THEN <<>> ELSE Append(reverse(Tail(arr)), arr[1])

mutated(arr, how) ==
  IF how = "push" THEN Append(arr, Foreign)
  ELSE IF how = "pop" THEN SubSeq(arr, 1, Len(arr) - 1)
  ELSE reverse(arr)

MutateSnapshot(how) ==
  /\ snap.held
  /\ how = "push" => Len(snap.value) < MaxSnapLen
  /\ how = "pop" => Len(snap.value) > 0
  /\ LET arr == mutated(snap.value, how)
     IN Commit([Cur EXCEPT !.snap.value = arr,
                           !.logs = IF snap.sameObject THEN arr ELSE @])
  /\ ret' = NoRet
  /\ UNCHANGED <<constructed, sinceClear>>

\* ---------------------------------------------------------------- inputs
\* What new Error().stack is at a call of record or of a facade method:
\* absent, with a frame of the caller, with collector frames only, or with a
\* vendor frame above the caller.
CapturedStacks ==
  {NoStack,
   <<Header, InternalFrame, AppFrame>>,
   <<Header, InternalFrame>>,
   <<Header, InternalFrame, VendorFrame, AppFrame>>}

ArgLists == {<<Str("a")>>, <<Err("Error", "boom", NoStack), Obj("{}")>>}

ErrorValues ==
  {Err("Error", "boom", <<BoomHeader, AppFrame>>), Err("Error", "boom", NoStack)}

ErrorEvents ==
  [message : {"", "oops"}, error : ErrorValues \cup {Undefined}]

Reasons ==
  ErrorValues \cup {Str("fail"), Obj("{\"code\":1}"), Circular, Undefined}

\* The inputs of Spec and ReadSpec, where the entry contents do not matter.
SomeArgs == <<Str("x")>>
SomeStack == <<Header, InternalFrame, AppFrame>>
SomeEvent == [message |-> "fail fail", error |-> Undefined]
SomeReason == Str("fail")

\* The calls of record and of the facade methods in EntrySpec: every level,
\* and every argument list under every captured stack.
Calls ==
  (Levels \X {SomeArgs} \X {SomeStack})
    \cup ({"info"} \X ArgLists \X CapturedStacks)

\* ------------------------------------------------------- specifications
\* Spec: the delivery pipeline, with the timer, the readiness event and the
\* settling of the host calls.
Next ==
  \/ Construct
  \/ (nextId <= MaxAppends
        /\ \E level \in SpecLevels : Record(level, SomeArgs, SomeStack))
  \/ (nextId <= MaxAppends
        /\ \E level \in SpecLevels : Facade(level, SomeArgs, SomeStack))
  \/ (nextId <= MaxAppends /\ ErrorEvent(SomeEvent))
  \/ (nextId <= MaxAppends /\ UnhandledRejection(SomeReason))
  \/ ClearLogs
  \/ TimerFire
  \/ TauriReadyEvent
  \/ \E i \in 1..Len(resetCalls), ok \in BOOLEAN : ResetSettle(i, ok)
  \/ \E i \in 1..Len(appendCalls), ok \in BOOLEAN : AppendSettle(i, ok)

Spec == Init /\ [][Next]_vars

\* ReadSpec: the ring buffer and its read API under every level.  Only
\* addLog and clearLogs assign this.logs, so the buffer contents reachable
\* here are those reachable with the delivery pipeline running.
ReadNext ==
  \/ Construct
  \/ (nextId <= MaxReadAppends
        /\ \E level \in Levels : Record(level, SomeArgs, SomeStack))
  \/ (nextId <= MaxReadAppends
        /\ \E level \in Levels : Facade(level, SomeArgs, SomeStack))
  \/ (nextId <= MaxReadAppends /\ ErrorEvent(SomeEvent))
  \/ (nextId <= MaxReadAppends /\ UnhandledRejection(SomeReason))
  \/ ClearLogs
  \/ CallGetLogs
  \/ \E count \in -MaxCount..MaxCount : CallGetRecentLogs(count)
  \/ CallGetStats
  \/ \E level \in Levels : CallGetLogsByLevel(level)
  \/ CallGetErrors

ReadSpec == Init /\ [][ReadNext]_vars

\* EntrySpec: the contents of the entries, under every kind of argument,
\* captured stack, error event and rejection reason.
EntryNext ==
  \/ Construct
  \/ (nextId <= MaxEntryAppends /\ \E c \in Calls : Record(c[1], c[2], c[3]))
  \/ (nextId <= MaxEntryAppends /\ \E c \in Calls : Facade(c[1], c[2], c[3]))
  \/ (nextId <= MaxEntryAppends /\ \E event \in ErrorEvents : ErrorEvent(event))
  \/ (nextId <= MaxEntryAppends /\ \E reason \in Reasons : UnhandledRejection(reason))

EntrySpec == Init /\ [][EntryNext]_vars

\* FormatSpec: formatArgs, reached through record, under every argument list
\* of at most MaxArgs values.
FormatValues ==
  {Str("a"), Str(""), Err("TypeError", "bad", NoStack), Obj("{\"k\":1}"),
   Obj("[1,2]"), Circular, Undefined, Hostile}

FormatArgLists == UNION {[1..n -> FormatValues] : n \in 0..MaxArgs}

FormatNext ==
  \/ Construct
  \/ (nextId <= MaxFormatAppends
        /\ \E args \in FormatArgLists : Record("info", args, NoStack))

FormatSpec == Init /\ [][FormatNext]_vars

\* ShotSpec: captureMainWindow under window lists of at most MaxWindows
\* elements and under the matchers of the README and of the tests.  A
\* predicate is given by the appName it accepts; "" stands for a field or a
\* predicate that is not given.
Windows ==
  {Window(1, "x", "Other", "x"), Window(2, "main", "MyApp", "Main"),
   Window(3, "special", "Other", "Main"), NoWindow}

WindowLists == UNION {[1..n -> Windows] : n \in 0..MaxWindows}

NoOptions == [predicate |-> "", name |-> "", appName |-> "", title |-> ""]

Matchers ==
  {NoOptions,
   [NoOptions EXCEPT !.predicate = "MyApp"],
   [NoOptions EXCEPT !.predicate = "Missing"],
   [NoOptions EXCEPT !.name = "special"],
   [NoOptions EXCEPT !.appName = "MyApp", !.title = "Main"],
   [NoOptions EXCEPT !.appName = "Missing"],
   [NoOptions EXCEPT !.predicate = "Missing", !.name = "special"]}

ShotNext ==
  \/ Construct
  \/ \E options \in Matchers, windows \in WindowLists, windowsOk, shotOk \in BOOLEAN :
       CallCaptureMainWindow(options, windows, windowsOk, shotOk)

ShotSpec == Init /\ [][ShotNext]_vars

\* LiveSpec: the delivery pipeline with the guarantee of setTimeout that an
\* armed timer fires; nothing in the collector cancels one.  No call to the
\* host is required to settle.  Entries come from record and from the error
\* hook; the facade methods and the rejection hook enqueue through the same
\* addLog, and clearLogs does not touch the queue or the timer.
LiveNext ==
  \/ Construct
  \/ (nextId <= MaxAppends
        /\ \E level \in SpecLevels : Record(level, SomeArgs, SomeStack))
  \/ (nextId <= MaxAppends /\ ErrorEvent(SomeEvent))
  \/ TimerFire
  \/ TauriReadyEvent
  \/ \E i \in 1..Len(resetCalls), ok \in BOOLEAN : ResetSettle(i, ok)
  \/ \E i \in 1..Len(appendCalls), ok \in BOOLEAN : AppendSettle(i, ok)

LiveSpec == Init /\ [][LiveNext]_vars /\ WF_vars(TimerFire)

\* StackSpec: formatOrigin, withOriginArgs and normalizeStack under every
\* stack of at most MaxLines lines, the absent stack and the empty string.
StackLines == {Header, InternalFrame, VendorFrame, AppFrame, ErrorNamedFrame}

Stacks ==
  UNION {[1..n -> StackLines] : n \in 0..MaxLines} \cup {<<Line(0, "", {})>>}

\* buildOrigin and withOriginArgs as record and the facade methods use
\* them, for an Error whose stack is the given one.
CallBuildOrigin(stack) ==
  /\ ret' = [op |-> "buildOrigin", stack |-> stack,
             origin |-> buildOrigin(stack).origin,
             args |-> withOriginArgs(SomeArgs, buildOrigin(stack).origin)]
  /\ Commit(Cur)
  /\ UNCHANGED <<constructed, sinceClear>>

\* normalizeStack(stack).
CallNormalizeStack(stack) ==
  /\ ret' = [op |-> "normalizeStack", stack |-> stack,
             value |-> normalizeStack(stack)]
  /\ Commit(Cur)
  /\ UNCHANGED <<constructed, sinceClear>>

StackNext ==
  \/ \E stack \in Stacks : CallBuildOrigin(stack)
  \/ \E stack \in Stacks : CallNormalizeStack(stack)

StackSpec == Init /\ [][StackNext]_vars

\* SnapSpec: a caller holds and changes the arrays the read calls return
\* while the collector records and clears.
SnapNext ==
  \/ Construct
  \/ (nextId <= MaxSnapAppends
        /\ \E level \in SpecLevels : Record(level, SomeArgs, SomeStack))
  \/ (nextId <= MaxSnapAppends /\ ErrorEvent(SomeEvent))
  \/ ClearLogs
  \/ HoldGetLogs
  \/ \E level \in {"info", "error"} : HoldGetLogsByLevel(level)
  \/ HoldGetErrors
  \/ \E count \in 1..MaxCount : HoldGetRecentLogs(count)
  \/ \E how \in {"push", "pop", "reverse"} : MutateSnapshot(how)

SnapSpec == Init /\ [][SnapNext]_vars

\* ================================================================ claims
Min(a, b) == IF a < b THEN a ELSE b
LastN(arr, n) == SubSeq(arr, Len(arr) - n + 1, Len(arr))
Ids(arr) == {arr[i].id : i \in 1..Len(arr)}
OfLevel(arr, level) == SelectSeq(arr, LAMBDA e : e.level = level)
ResetInFlight == \E i \in 1..Len(resetCalls) : resetCalls[i].status = "inflight"
RecordStep == nextId' > nextId

\* C1: after any sequence of record operations and clears the ring buffer
\* holds exactly the most recent min(k, maxLogs) entries appended since the
\* last clear, in order, k being the number of appends since that clear; so
\* its length never exceeds maxLogs and an overflowing append evicts only the
\* oldest entry.
C1_RingBufferKeepsMostRecent ==
  /\ Len(logs) <= maxLogs
  /\ logs = LastN(sinceClear, Min(Len(sinceClear), maxLogs))

C1_Witness ==
  /\ Len(sinceClear) > maxLogs
  /\ Len(logs) = maxLogs
  /\ logs[1].id = sinceClear[Len(sinceClear) - maxLogs + 1].id

\* C2: while tauriReady is false no append_debug_logs call has been issued,
\* whatever records, hook events and timer fires have happened.
C2_NoDeliveryWhileNotReady ==
  ~tauriReady => Len(appendCalls) = 0

C2_Witness ==
  /\ constructed /\ hasWindow /\ ~tauriReady
  /\ Len(pendingLogs) = maxPendingLogs
  /\ nextId > maxPendingLogs + 1
  /\ timers = 1
  /\ Len(appendCalls) = 0

\* C3: if the pending queue is non-empty when tauriReady turns true and
\* nothing is recorded afterwards, at most one delivery call is ever issued,
\* its batch is the queue as it was at the transition, and it has been
\* issued once the readiness-triggered flush or the armed timer has run.
C3_OneDeliveryAfterReady ==
  (tauriReady /\ pendingAtReady # <<>> /\ ~recordedAfterReady) =>
    /\ Len(appendCalls) <= 1
    /\ (Len(appendCalls) = 1 => appendCalls[1].batch = pendingAtReady)
    /\ ((timers = 0 \/ ~ResetInFlight) => Len(appendCalls) = 1)

C3_Witness ==
  /\ tauriReady /\ pendingAtReady # <<>> /\ ~recordedAfterReady
  /\ Len(pendingAtReady) = maxPendingLogs
  /\ timers = 0 /\ ~ResetInFlight
  /\ Len(appendCalls) = 1
  /\ appendCalls[1].batch = pendingAtReady

\* C4: reset_debug_logs is issued at most once, however many readiness
\* triggers occur, and logsReset is already true when it is issued.
C4_ResetAtMostOnce ==
  /\ Len(resetCalls) <= 1
  /\ \A i \in 1..Len(resetCalls) : resetCalls[i].latch = TRUE

\* One entry recorded and its timer still armed, yet a delivery was issued
\* while the reset call is in flight: only a repeated tauri://ready event
\* does that.
C4_Witness ==
  /\ Len(resetCalls) = 1 /\ resetCalls[1].status = "inflight"
  /\ logsReset
  /\ nextId = 2 /\ timers = 1
  /\ Len(appendCalls) = 1

\* C5: when a delivery call rejects, the step reports it on
\* originalConsole.error and nowhere else, the promise of flushPending is
\* fulfilled, the pending queue is left as it was, and no entry of a failed
\* batch is in the pending queue or in the batch of another delivery call.
C5_RejectStep ==
  \A i \in 1..Len(appendCalls) :
    (appendCalls[i].status = "inflight" /\ appendCalls'[i].status = "failed") =>
      /\ Len(consoleOut') = 1
      /\ consoleOut'[1].channel = "error"
      /\ consoleOut'[1].args = <<Str("[debug] append logs failed")>>
      /\ appendCalls'[i].promise = "fulfilled"
      /\ pendingLogs' = pendingLogs
      /\ Len(appendCalls') = Len(appendCalls)

C5_FailedBatchGone ==
  \A i \in 1..Len(appendCalls) :
    appendCalls[i].status = "failed" =>
      /\ Ids(appendCalls[i].batch) \cap Ids(pendingLogs) = {}
      /\ \A j \in 1..Len(appendCalls) :
           j # i => Ids(appendCalls[i].batch) \cap Ids(appendCalls[j].batch) = {}

C5_FailedDeliveryDropped == [][C5_RejectStep]_vars /\ []C5_FailedBatchGone

C5_Witness ==
  /\ Len(appendCalls) = 2
  /\ appendCalls[1].status = "failed"
  /\ appendCalls[1].promise = "fulfilled"
  /\ Len(consoleOut) = 1
  /\ consoleOut[1].args = <<Str("[debug] append logs failed")>>
  /\ pendingLogs # <<>>

\* C6: with the host ready, a record that brings the pending queue to
\* maxPendingLogs entries triggers a flush in the same step instead of
\* waiting for the timer, so the step never ends with a full queue.
C6_FlushAtThreshold ==
  [][(tauriReady /\ RecordStep) => Len(pendingLogs') < maxPendingLogs]_vars

\* C7: the pending queue never holds more than maxPendingLogs entries, and a
\* record made while it holds maxPendingLogs evicts exactly the oldest one
\* and keeps the others in order.
C7_EnqueueStep ==
  RecordStep =>
    pendingLogs' =
      Append(IF Len(pendingLogs) = maxPendingLogs THEN Tail(pendingLogs)
             ELSE pendingLogs,
             logs'[Len(logs')])

C7_PendingBounded ==
  [](Len(pendingLogs) <= maxPendingLogs) /\ [][C7_EnqueueStep]_vars

C7_Witness ==
  /\ Len(pendingLogs) = maxPendingLogs
  /\ Len(appendCalls) = 0
  /\ pendingLogs[1].id = 2
  /\ pendingLogs[maxPendingLogs].id = nextId - 1

\* C8: getRecentLogs(count) with count <= 0 returns the empty sequence.
C8_NonPositiveCountIsEmpty ==
  (ret.op = "getRecentLogs" /\ ret.count <= 0) => ret.value = <<>>

\* C9: for count >= 1 getRecentLogs(count) returns the last
\* min(count, length) entries of the ring buffer in insertion order, all of
\* them when count >= length.
C9_RecentIsSuffix ==
  \A count \in 1..MaxCount :
    getRecentLogs(Cur, count) = LastN(logs, Min(count, Len(logs)))

C9_Witness ==
  /\ ret.op = "getRecentLogs" /\ ret.count = 2
  /\ Len(logs) = 3
  /\ ret.value = <<logs[2], logs[3]>>

\* C10: getStats() returns total equal to the buffer length and a byLevel
\* count for each of the five levels, equal to the number of buffered
\* entries of that level; the five counts sum to total.
C10_StatsMatchBuffer ==
  LET st == getStats(Cur)
  IN /\ st.total = Len(logs)
     /\ DOMAIN st.byLevel = {"log", "warn", "error", "info", "debug"}
     /\ \A l \in DOMAIN st.byLevel : st.byLevel[l] = Len(OfLevel(logs, l))
     /\ st.byLevel["log"] + st.byLevel["warn"] + st.byLevel["error"]
          + st.byLevel["info"] + st.byLevel["debug"] = st.total

C10_Witness ==
  /\ ret.op = "getStats"
  /\ ret.value = getStats(Cur)
  /\ ret.value.total = 3
  /\ ret.value.byLevel["info"] = 1
  /\ ret.value.byLevel["warn"] = 2
  /\ ret.value.byLevel["error"] = 0

\* C11: getLogsByLevel(level) returns exactly the buffered entries of that
\* level, none omitted and none of another level, in insertion order, and
\* getErrors() returns the buffered entries of level error in the same way.
IsLevelFilter(result, level) ==
  /\ \A i \in 1..Len(result) : result[i].level = level
  /\ Ids(result) = {logs[i].id : i \in {j \in 1..Len(logs) : logs[j].level = level}}
  /\ \A i \in 1..Len(result) : \E j \in 1..Len(logs) : result[i] = logs[j]
  /\ \A i, j \in 1..Len(result) : i < j => result[i].id < result[j].id

C11_ByLevelIsFilter ==
  /\ \A level \in Levels : IsLevelFilter(getLogsByLevel(Cur, level), level)
  /\ IsLevelFilter(getErrors(Cur), "error")

C11_Witness ==
  /\ ret.op = "getErrors"
  /\ Len(logs) = 3
  /\ logs[1].level = "error" /\ logs[2].level = "info" /\ logs[3].level = "error"
  /\ ret.value = <<logs[1], logs[3]>>

\* C12: clearLogs() leaves the ring buffer empty, a second call changes
\* nothing more, and the pending queue, the flush timer, tauriReady and
\* logsReset are as before; the next delivery call carries the whole pending
\* queue, whether or not its entries are still in the ring buffer.
C12_ClearStep ==
  ClearLogs =>
    /\ logs' = <<>>
    /\ UNCHANGED <<pendingLogs, flushTimer, timers, tauriReady, logsReset,
                   resetCalls, appendCalls>>

C12_DeliveryStep ==
  Len(appendCalls') > Len(appendCalls) =>
    appendCalls'[Len(appendCalls')].batch = pendingLogs

C12_ClearKeepsPending ==
  /\ [][C12_ClearStep /\ C12_DeliveryStep]_vars
  /\ [](clearLogs(clearLogs(Cur)) = clearLogs(Cur))

\* Cleared with two entries still undelivered and the host ready: they are
\* in the pending queue only, for the armed timer to deliver.
C12_Witness ==
  /\ logs = <<>> /\ sinceClear = <<>>
  /\ Ids(pendingLogs) = {1, 2}
  /\ tauriReady /\ logsReset
  /\ timers = 1 /\ flushTimer # NULL
  /\ Len(appendCalls) = 0

\* C13: a flush, from the timer or from readiness, and the settling of its
\* delivery call, resolved or rejected, leave the ring buffer as it was.
FlushStep ==
  \/ TimerFire
  \/ TauriReadyEvent
  \/ \E i \in 1..Len(resetCalls), ok \in BOOLEAN : ResetSettle(i, ok)
  \/ \E i \in 1..Len(appendCalls), ok \in BOOLEAN : AppendSettle(i, ok)

C13_FlushKeepsLogs ==
  [][FlushStep => (logs' = logs /\ getLogs(Cur)' = getLogs(Cur))]_vars

C13_Witness ==
  /\ Len(appendCalls) = 3
  /\ appendCalls[1].status = "ok"
  /\ appendCalls[2].status = "failed"
  /\ appendCalls[3].status = "inflight"
  /\ Ids(logs) = {1, 2, 3}

\* C14: an array returned by getLogs, getLogsByLevel, getErrors or
\* getRecentLogs is never the collector's own array: pushing to it, popping
\* from it or reversing it leaves this.logs as it was, and recording,
\* evicting and clearLogs leave a held array as it was.
C14_SnapshotsIndependent ==
  /\ [](snap.held => ~snap.sameObject)
  /\ [][(\E how \in {"push", "pop", "reverse"} : MutateSnapshot(how))
          => logs' = logs]_vars
  /\ [][(RecordStep \/ ClearLogs) => snap' = snap]_vars

\* A held array that was reversed and pushed to, next to a ring buffer that
\* has since evicted its oldest entry.
C14_Witness ==
  /\ snap.held
  /\ Len(snap.value) = 3
  /\ snap.value[1].id = 2 /\ snap.value[2].id = 1 /\ snap.value[3].id = 0
  /\ Len(logs) = maxLogs /\ logs[1].id = 2

LastOf(arr) == arr[Len(arr)]

\* C15 as stated: an entry made by log / info / warn / error / debug or by
\* record carries no stack trace.
C15_CallSiteEntriesHaveNoStack ==
  [][\A c \in Calls :
       (Record(c[1], c[2], c[3]) \/ Facade(c[1], c[2], c[3]))
         => LastOf(logs').stack_trace = NoStack]_vars

\* C15 as amended: an entry made by log / info / warn / error / debug or by
\* record carries a stack trace exactly when the stack captured at the call
\* is present; an entry made by an error hook carries one exactly when the
\* event's error or rejection reason is an Error with a stack.
C15_StackFollowsSource ==
  [][/\ \A c \in Calls :
          (Record(c[1], c[2], c[3]) \/ Facade(c[1], c[2], c[3]))
            => (LastOf(logs').stack_trace # NoStack <=> c[3] # NoStack)
     /\ \A event \in ErrorEvents :
          ErrorEvent(event)
            => (LastOf(logs').stack_trace # NoStack
                  <=> (event.error.kind = "error" /\ event.error.stack # NoStack))
     /\ \A reason \in Reasons :
          UnhandledRejection(reason)
            => (LastOf(logs').stack_trace # NoStack
                  <=> (reason.kind = "error" /\ reason.stack # NoStack))]_vars

\* A record entry with its stack, captured with collector frames only, next
\* to a hook entry without one.
C15_Witness ==
  /\ Len(logs) = 2
  /\ logs[1].level = "info"
  /\ logs[1].stack_trace = <<Header, InternalFrame>>
  /\ logs[2].level = "error"
  /\ logs[2].message = "Unhandled error"
  /\ logs[2].stack_trace = NoStack

\* C16: a call of log / info / warn / error / debug calls the original
\* console channel of that name exactly once, before anything is recorded,
\* and then appends exactly one entry of that level; the entries of the ring
\* buffer are in call order.
C16_FacadeStep ==
  \A c \in Calls :
    Facade(c[1], c[2], c[3]) =>
      /\ Len(consoleOut') = 1
      /\ consoleOut'[1].channel = c[1]
      /\ consoleOut'[1].recorded = nextId - 1
      /\ nextId' = nextId + 1
      /\ Len(sinceClear') = Len(sinceClear) + 1
      /\ LastOf(logs').level = c[1]
      /\ LastOf(logs').id = nextId
      /\ \A i \in 1..Len(logs') - 1 : logs'[i] \in {logs[j] : j \in 1..Len(logs)}

C16_FacadeConsoleThenEntry ==
  /\ [][C16_FacadeStep]_vars
  /\ [](\A i, j \in 1..Len(logs) : i < j => logs[i].id < logs[j].id)

C16_Witness ==
  /\ Len(logs) = 2
  /\ logs[1].level = "log"
  /\ logs[2].level = "debug"
  /\ Len(consoleOut) = 1
  /\ consoleOut[1].channel = "debug"
  /\ consoleOut[1].recorded = 1

\* C17: once tauriReady is true it stays true, whatever is recorded,
\* cleared, fired, notified or settled, failures included.
C17_ReadyIsMonotone ==
  [][tauriReady => tauriReady']_vars

C17_Witness ==
  /\ tauriReady
  /\ Len(resetCalls) = 1 /\ resetCalls[1].status = "failed"
  /\ \E i \in 1..Len(appendCalls) : appendCalls[i].status = "failed"
  /\ logs = <<>>
  /\ nextId > MaxAppends

\* C18: when the reset call rejects, the step reports it on
\* originalConsole.error and nowhere else, tauriReady stays true, and the
\* flush takes place: a non-empty pending queue is handed whole to a new
\* delivery call.
C18_ResetRejectStep ==
  \A i \in 1..Len(resetCalls) :
    (resetCalls[i].status = "inflight" /\ resetCalls'[i].status = "failed") =>
      /\ Len(consoleOut') = 1
      /\ consoleOut'[1].channel = "error"
      /\ consoleOut'[1].args = <<Str("[debug] reset logs failed")>>
      /\ tauriReady /\ tauriReady'
      /\ UNCHANGED <<logs, logsReset, flushTimer, timers>>
      /\ pendingLogs' = <<>>
      /\ IF pendingLogs # <<>>
           THEN appendCalls' = Append(appendCalls, [batch |-> pendingLogs,
                                                    status |-> "inflight",
                                                    promise |-> "pending"])
           ELSE appendCalls' = appendCalls

C18_ResetFailureStillFlushes == [][C18_ResetRejectStep]_vars

\* Ready at construction, so no tauri://ready listener; one entry recorded
\* and its timer still armed: the delivery comes from the rejected reset.
C18_Witness ==
  /\ tauriCore /\ ~readyListener
  /\ Len(resetCalls) = 1 /\ resetCalls[1].status = "failed"
  /\ nextId = 2 /\ timers = 1
  /\ Len(appendCalls) = 1 /\ Ids(appendCalls[1].batch) = {1}
  /\ Len(consoleOut) = 1

\* C19: an error event and an unhandledrejection event each produce exactly
\* one entry of level error, whatever the payload, and the entry is appended
\* to the ring buffer and to the pending queue and a flush timer is armed.
C19_OneErrorEntry ==
  /\ nextId' = nextId + 1
  /\ Len(sinceClear') = Len(sinceClear) + 1
  /\ LastOf(logs').level = "error"
  /\ LastOf(logs').id = nextId
  /\ LastOf(pendingLogs') = LastOf(logs')
  /\ \A i \in 1..Len(logs') - 1 : logs'[i].id < nextId
  /\ \A i \in 1..Len(pendingLogs') - 1 : pendingLogs'[i].id < nextId
  /\ flushTimer' # NULL
  /\ timers' = IF flushTimer = NULL THEN timers + 1 ELSE timers

C20_RejectionMessageIsReason ==
  [][\A reason \in Reasons :
       (UnhandledRejection(reason) /\ reason.kind \in {"string", "error"})
         => LastOf(logs').message = reason.text]_vars

\* C21: formatArgs never throws, and its result is the conversions of the
\* arguments joined by single spaces, each argument converted by the first
\* rule that applies: a string unchanged, an Error as "<name>: <message>",
\* the JSON serialization, and the string coercion when that fails.
C21_Convert(arg) ==
  IF arg.kind = "string" THEN arg.text
  ELSE IF arg.kind = "error" THEN arg.name \o ": " \o arg.text
  ELSE arg.text

C21_FormatterIsTotal ==
  [][\A args \in FormatArgLists :
       Record("info", args, NoStack)
         => /\ ret'.op # "throw"
            /\ nextId' = nextId + 1
            /\ LastOf(logs').message
                 = join([i \in 1..Len(args) |-> C21_Convert(args[i])])]_vars

DeliveryInFlight ==
  \E i \in 1..Len(appendCalls) : appendCalls[i].status = "inflight"

RecordCall ==
  \/ \E level \in SpecLevels : Record(level, SomeArgs, SomeStack)
  \/ \E level \in SpecLevels : Facade(level, SomeArgs, SomeStack)
  \/ ErrorEvent(SomeEvent)
  \/ UnhandledRejection(SomeReason)

\* C22: while a delivery call is in flight, a record operation completes:
\* its entry is appended to the ring buffer and to the pending queue and a
\* flush timer is armed; and the next timer fire hands the pending entries
\* to a new delivery call while the earlier call is still in flight.
C22_HungDeliveryDoesNotStall ==
  [][DeliveryInFlight =>
       /\ RecordCall =>
            /\ nextId' = nextId + 1
            /\ LastOf(logs').id = nextId
            /\ LastOf(pendingLogs') = LastOf(logs')
            /\ flushTimer' # NULL /\ timers' > 0
            /\ appendCalls' = appendCalls
       /\ (TimerFire /\ pendingLogs # <<>>) =>
            /\ appendCalls' = Append(appendCalls, [batch |-> pendingLogs,
                                                   status |-> "inflight",
                                                   promise |-> "pending"])
            /\ pendingLogs' = <<>>]_vars

\* Two delivery calls in flight at once, the second with the entries
\* recorded after the first was issued.
C22_Witness ==
  /\ Len(appendCalls) = 2
  /\ appendCalls[1].status = "inflight" /\ Ids(appendCalls[1].batch) = {1}
  /\ appendCalls[2].status = "inflight" /\ Ids(appendCalls[2].batch) = {2, 3}
  /\ pendingLogs = <<>>

\* The selection C23 describes: the first window the predicate accepts, else
\* the first window equal to the matcher in every field it gives, else the
\* first window; null for an empty list or an undefined first element.
C23_Accepts(options, w) ==
  w # NoWindow /\ options.predicate # "" /\ w.appName = options.predicate

C23_FieldsGiven(options) ==
  options.name # "" \/ options.appName # "" \/ options.title # ""

C23_Matches(options, w) ==
  /\ w # NoWindow
  /\ C23_FieldsGiven(options)
  /\ (options.name # "" => w.name = options.name)
  /\ (options.appName # "" => w.appName = options.appName)
  /\ (options.title # "" => w.title = options.title)

C23_First(windows, Test(_)) ==
  windows[CHOOSE i \in 1..Len(windows) :
            Test(windows[i]) /\ \A j \in 1..i - 1 : ~Test(windows[j])].id

C23_Selected(options, windows) ==
  IF Len(windows) = 0 \/ windows[1] = NoWindow THEN NULL
  ELSE IF \E i \in 1..Len(windows) : C23_Accepts(options, windows[i])
    THEN C23_First(windows, LAMBDA w : C23_Accepts(options, w))
  ELSE IF \E i \in 1..Len(windows) : C23_Matches(options, windows[i])
    THEN C23_First(windows, LAMBDA w : C23_Matches(options, w))
  ELSE windows[1].id

\* C23: captureMainWindow(options) captures the window selected by
\* priority, predicate first, then the name / appName / title fields, then
\* the first window, and returns null when the list is empty or its first
\* element is undefined.
C23_SelectsByPriority ==
  (ret.op = "captureMainWindow" /\ ret.windowsOk)
    => ret.result.target = C23_Selected(ret.options, ret.windows)

\* C24: at most one flush timer is outstanding, and this.flushTimer is
\* non-null exactly while a timer is armed and has not fired.
C24_OneTimer ==
  /\ timers <= 1
  /\ (flushTimer # NULL) <=> (timers = 1)

\* A timer armed again after an earlier one fired and delivered.
C24_Witness ==
  /\ Len(appendCalls) = 1 /\ Ids(appendCalls[1].batch) = {1}
  /\ Ids(pendingLogs) = {2}
  /\ flushTimer # NULL /\ timers = 1
  /\ resetCalls # <<>> /\ resetCalls[1].status = "ok"

\* C25 as stated: the pending queue is emptied only by a delivery that
\* succeeds.
C25_ClearedOnlyBySuccess ==
  [][(pendingLogs # <<>> /\ pendingLogs' = <<>>)
       => \E i \in 1..Len(appendCalls) :
            appendCalls[i].status = "inflight" /\ appendCalls'[i].status = "ok"]_vars

\* C25 as amended: the pending queue changes only by an enqueue, which
\* evicts the oldest entry only at capacity, and by the drain of a flush,
\* which removes the whole queue at once and hands it to a new delivery
\* call; the settling of a delivery call, resolved or rejected, leaves the
\* queue as it is.
C25_DrainedWholeAtHandOver ==
  [][/\ pendingLogs' # pendingLogs =>
          \/ /\ nextId' = nextId + 1
             /\ LastOf(pendingLogs').id = nextId
             /\ pendingLogs' = Append(IF Len(pendingLogs) = maxPendingLogs
                                        THEN Tail(pendingLogs)
                                        ELSE pendingLogs,
                                      LastOf(pendingLogs'))
          \/ /\ pendingLogs' = <<>>
             /\ appendCalls' = Append(appendCalls, [batch |-> pendingLogs,
                                                    status |-> "inflight",
                                                    promise |-> "pending"])
     /\ \A i \in 1..Len(appendCalls), ok \in BOOLEAN :
          AppendSettle(i, ok) => pendingLogs' = pendingLogs]_vars

\* The queue is empty and its only batch was handed to a call that failed.
C25_Witness ==
  /\ Len(appendCalls) = 1
  /\ appendCalls[1].status = "failed"
  /\ Ids(appendCalls[1].batch) = {2, 3}
  /\ pendingLogs = <<>>
  /\ nextId = 4

\* C26: in the step that makes the collector ready, tauriReady is set, the
\* reset call is issued with tauriReady already true, and no flush takes
\* place; the flush of that readiness takes place in the step in which the
\* reset call settles, resolved or rejected.
C26_ReadyResetFlushOrder ==
  [][/\ (~tauriReady /\ tauriReady') =>
          /\ resetCalls = <<>>
          /\ Len(resetCalls') = 1
          /\ resetCalls'[1].status = "inflight"
          /\ resetCalls'[1].ready
          /\ appendCalls' = appendCalls
          /\ pendingLogs' = pendingLogs
     /\ \A i \in 1..Len(resetCalls), ok \in BOOLEAN :
          ResetSettle(i, ok) =>
            /\ tauriReady
            /\ IF pendingLogs # <<>>
                 THEN /\ pendingLogs' = <<>>
                      /\ appendCalls' = Append(appendCalls,
                                               [batch |-> pendingLogs,
                                                status |-> "inflight",
                                                promise |-> "pending"])
                 ELSE UNCHANGED <<pendingLogs, appendCalls>>]_vars

\* Entries recorded before readiness, delivered when the reset resolved.
C26_Witness ==
  /\ readyListener
  /\ Len(resetCalls) = 1 /\ resetCalls[1].status = "ok"
  /\ Ids(pendingAtReady) = {1, 2}
  /\ Len(appendCalls) = 1
  /\ appendCalls[1].batch = pendingAtReady
  /\ appendCalls[1].status = "inflight"
  /\ pendingLogs = <<>>

\* C27: a tauri://ready event received when the collector is already ready
\* issues no host call, neither reset nor delivery, and changes nothing in
\* the collector.
C27_RepeatedReadyIsInert ==
  [][(tauriReady /\ TauriReadyEvent)
       => UNCHANGED <<resetCalls, appendCalls, pendingLogs, logs, tauriReady,
                      logsReset, flushTimer, timers, nextId>>]_vars

C29_FlushAttempt ==
  \/ TimerFire
  \/ TauriReadyEvent
  \/ \E i \in 1..Len(resetCalls), ok \in BOOLEAN : ResetSettle(i, ok)

C29_EmptyFlushIsNoOp ==
  /\ [][(C29_FlushAttempt /\ tauriReady /\ pendingLogs = <<>>) =>
          /\ appendCalls' = appendCalls
          /\ pendingLogs' = <<>>
          /\ timers' <= timers
          /\ (TimerFire => (flushTimer' = NULL /\ timers' = 0))]_vars
  /\ [][(tauriReady /\ flushTimer = NULL /\ flushTimer' # NULL)
          => (nextId' = nextId + 1 /\ LastOf(pendingLogs').id = nextId)]_vars

\* A timer callback that found the collector ready and the queue empty: the
\* only entry had been delivered when the reset call settled.
C29_Witness ==
  /\ ret.op = "timer"
  /\ tauriReady
  /\ nextId = 2
  /\ Len(appendCalls) = 1 /\ Ids(appendCalls[1].batch) = {1}
  /\ pendingLogs = <<>>
  /\ flushTimer = NULL /\ timers = 0

\* C30 as stated: at construction, with window.__TAURI__.core present the
\* collector is ready at once, issues the reset call and adds no
\* tauri://ready listener; otherwise it is not ready, issues no host call
\* and adds the listener, and the event makes it ready.
C30_ReadyStep ==
  (TauriReadyEvent /\ ~tauriReady) => tauriReady'

C30_ConstructionReadiness ==
  [][/\ Construct =>
          IF tauriCore
            THEN /\ tauriReady'
                 /\ Len(resetCalls') = 1 /\ resetCalls'[1].status = "inflight"
                 /\ ~readyListener'
            ELSE /\ ~tauriReady'
                 /\ resetCalls' = <<>> /\ appendCalls' = <<>>
                 /\ readyListener'
     /\ C30_ReadyStep]_vars

\* C30 as amended: the listener is added in the second case only when a
\* window exists; without a window the collector adds no listener, issues no
\* host call and is never ready.
C30_ConstructionReadinessWithWindow ==
  /\ [][/\ Construct =>
             IF tauriCore
               THEN /\ tauriReady'
                    /\ Len(resetCalls') = 1 /\ resetCalls'[1].status = "inflight"
                    /\ ~readyListener'
               ELSE /\ ~tauriReady'
                    /\ resetCalls' = <<>> /\ appendCalls' = <<>>
                    /\ readyListener' = hasWindow
        /\ C30_ReadyStep]_vars
  /\ [](~hasWindow => (/\ ~tauriReady /\ ~readyListener
                       /\ resetCalls = <<>> /\ appendCalls = <<>>))

\* Constructed without the core, made ready by the event.
C30_Witness ==
  /\ constructed /\ ~tauriCore
  /\ readyListener /\ tauriReady
  /\ Len(resetCalls) = 1 /\ resetCalls[1].status = "inflight"
  /\ appendCalls = <<>>
  /\ Ids(pendingLogs) = {1}

\* C31: a record operation, by a facade method, by record or by an error
\* hook, appends one entry to the ring buffer and to the pending queue in one
\* step: afterwards it is the last element of both, and each container
\* evicts its oldest entry by its own length only.  The record operations
\* are the steps that take a new entry id.
C31_AppendedToBoth ==
  [][RecordStep =>
       /\ nextId' = nextId + 1
       /\ LastOf(logs').id = nextId
       /\ LastOf(pendingLogs') = LastOf(logs')
       /\ logs' = Append(IF Len(logs) = maxLogs THEN Tail(logs) ELSE logs,
                         LastOf(logs'))
       /\ pendingLogs' = Append(IF Len(pendingLogs) = maxPendingLogs
                                  THEN Tail(pendingLogs) ELSE pendingLogs,
                                LastOf(logs'))]_vars

\* Both containers have evicted, each at its own capacity: the ring buffer
\* still holds entry 2, which the queue has lost.
C31_Witness ==
  /\ Ids(logs) = {2, 3, 4}
  /\ Ids(pendingLogs) = {3, 4}

\* The frames of a stack are its lines other than a header line.
IsHeaderLine(line) == line \in {Header, BoomHeader}

C32_Markers ==
  {"debugTools", "consoleLogger", "ConsoleLogCollector", "node_modules",
   "react-dom_client", "guest-js", "dist-js"}

C32_Usable(line) ==
  /\ ~IsHeaderLine(line)
  /\ line.text # ""
  /\ line.marks \cap C32_Markers = {}

C32_Origin(stack) ==
  IF \E i \in 1..Len(stack) : C32_Usable(stack[i])
    THEN stack[CHOOSE i \in 1..Len(stack) :
                 C32_Usable(stack[i]) /\ \A j \in 1..i - 1 : ~C32_Usable(stack[j])].text
    ELSE ""

\* C32: the origin is the first frame, from the top, that is not a header
\* line and has none of the markers, and there is none when every frame is
\* filtered; with an origin the arguments gain the one trailing element
\* "[origin] <origin>", without one they are passed as they are.
C32_OriginIsFirstUsableFrame ==
  ret.op = "buildOrigin" =>
    /\ ret.origin = C32_Origin(ret.stack)
    /\ ret.args = IF C32_Origin(ret.stack) # ""
                    THEN Append(SomeArgs, Str("[origin] " \o C32_Origin(ret.stack)))
                    ELSE SomeArgs

C33_IsAbsent(stack) == stack = NoStack \/ stack = <<Line(0, "", {})>>

C33_OwnFrame(line) ==
  line.marks \cap {"consoleLogger", "ConsoleLogCollector"} # {}

\* C33: normalizeStack maps an absent stack to an absent one and a stack of
\* one line to itself; for a longer stack it returns the first line followed
\* by the frames without the names of the logger, in their order, and the
\* stack itself when no such frame is left.
C33_NormalizeStack ==
  ret.op = "normalizeStack" =>
    LET stack == ret.stack
        kept == SelectSeq(Tail(stack), LAMBDA l : ~C33_OwnFrame(l))
    IN ret.value = IF C33_IsAbsent(stack) THEN NoStack
                   ELSE IF Len(stack) = 1 THEN stack
                   ELSE IF kept = <<>> THEN stack
                   ELSE <<stack[1]>> \o kept

C33_Witness ==
  /\ ret.op = "normalizeStack"
  /\ ret.stack = <<Header, InternalFrame, VendorFrame>>
  /\ ret.value = <<Header, VendorFrame>>

\* C34: with a window, between any two steps a non-empty pending queue has a
\* flush timer armed: the handle is set and one timeout is outstanding.
C34_PendingHasTimer ==
  (hasWindow /\ pendingLogs # <<>>) => (flushTimer # NULL /\ timers = 1)

\* Entries recorded after a timer fired before the host was ready, with a
\* reset still in flight and one batch already handed over.
C34_Witness ==
  /\ hasWindow /\ pendingLogs # <<>> /\ flushTimer # NULL
  /\ ResetInFlight
  /\ Len(appendCalls) >= 1

\* The entries handed to the host by the first n delivery calls, in the
\* order of the calls.
RECURSIVE HandedOver(_, _)
HandedOver(calls, n) ==
  IF n = 0 THEN <<>> ELSE HandedOver(calls, n - 1) \o calls[n].batch

\* C35: over the delivery calls in the order they were issued, settled or
\* in flight, the ids of the entries handed over increase strictly: no
\* entry is in two batches or twice in one, and the batches follow the order
\* of recording.
C35_HandedOverOnce ==
  LET handed == HandedOver(appendCalls, Len(appendCalls))
  IN /\ \A i, j \in 1..Len(handed) : i < j => handed[i].id < handed[j].id
     /\ \A i \in 1..Len(handed) : handed[i].id < nextId

\* Two delivery calls in flight at once with three entries between them,
\* after the reset has settled.
C35_Witness ==
  /\ Len(appendCalls) = 2
  /\ appendCalls[1].status = "inflight" /\ appendCalls[2].status = "inflight"
  /\ Ids(HandedOver(appendCalls, 2)) = {1, 2, 3}
  /\ ~ResetInFlight /\ Len(resetCalls) = 1

\* C36: with a window and armed timers firing, if the collector becomes
\* ready and recording stops, then from some point on the pending queue is
\* empty and no timer is armed, whether or not the reset call or any
\* delivery call settles.
C36_QueueEventuallyDrained ==
  (hasWindow /\ <>tauriReady /\ <>[][nextId' = nextId]_vars)
    => <>[](pendingLogs = <<>> /\ flushTimer = NULL /\ timers = 0)

\* Every recorded entry handed over or evicted while the reset call and the
\* delivery calls are all still in flight.
C36_Witness ==
  /\ hasWindow /\ tauriReady /\ ResetInFlight
  /\ nextId > MaxAppends
  /\ pendingLogs = <<>> /\ flushTimer = NULL /\ timers = 0
  /\ Len(appendCalls) >= 1
  /\ \A i \in 1..Len(appendCalls) : appendCalls[i].status = "inflight"

\* C37: the reset call is issued before the first delivery call: whenever a
\* delivery call has been issued a reset call has been issued too, and the
\* step that issues the reset call issues no delivery call.
C37_ResetIssuedFirst ==
  /\ [](appendCalls # <<>> => resetCalls # <<>>)
  /\ [][Len(resetCalls') > Len(resetCalls) =>
          (resetCalls = <<>> /\ appendCalls = <<>> /\ appendCalls' = <<>>)]_vars

\* The first delivery call issued by a timer, after the reset call was
\* issued and before it settled.
C37_Witness ==
  /\ Len(appendCalls) = 1
  /\ Len(resetCalls) = 1 /\ resetCalls[1].status = "inflight"
  /\ ret.op = "timer"

\* C38: no delivery call is issued while the reset call is in flight: after
\* every step that issues a delivery call the reset call has settled.
C38_NoDeliveryDuringReset ==
  [][Len(appendCalls') > Len(appendCalls) => ~ResetInFlight']_vars

C39_Range(arr) == {arr[i] : i \in 1..Len(arr)}

\* C39: an entry that a step takes out of the pending queue is in a batch
\* of a delivery call issued by that step, or it was the oldest entry of a
\* full queue and the step recorded a new entry.
C39_LeavesByDeliveryOrOverflow ==
  [][\A i \in 1..Len(pendingLogs) :
       pendingLogs[i] \notin C39_Range(pendingLogs') =>
         \/ \E k \in Len(appendCalls) + 1..Len(appendCalls') :
              pendingLogs[i] \in C39_Range(appendCalls'[k].batch)
         \/ /\ i = 1
            /\ Len(pendingLogs) = maxPendingLogs
            /\ RecordStep
            /\ appendCalls' = appendCalls]_vars

\* The oldest entry evicted by overflow and never handed over; the two
\* others still queued after a clear and a timer fire before the host was
\* ready.
C39_Witness ==
  /\ Ids(pendingLogs) = {2, 3}
  /\ appendCalls = <<>>
  /\ logs = <<>> /\ nextId = 4
  /\ ~tauriReady
  /\ ret.op = "timer"

\* C40: every delivery call carries between one and maxPendingLogs entries;
\* a step issues at most one, its batch is the whole pending queue as the
\* step found it, and the queue is empty after the step.
C40_BatchIsWholeQueue ==
  /\ [](\A k \in 1..Len(appendCalls) :
          /\ Len(appendCalls[k].batch) >= 1
          /\ Len(appendCalls[k].batch) <= maxPendingLogs)
  /\ [][Len(appendCalls') > Len(appendCalls) =>
          /\ Len(appendCalls') = Len(appendCalls) + 1
          /\ LastOf(appendCalls').batch = pendingLogs
          /\ pendingLogs # <<>>
          /\ pendingLogs' = <<>>]_vars

\* A timer handed over a full queue, the oldest entry having been evicted.
C40_Witness ==
  /\ Len(appendCalls) = 1
  /\ Len(appendCalls[1].batch) = maxPendingLogs
  /\ Ids(appendCalls[1].batch) = {2, 3}
  /\ pendingLogs = <<>>
  /\ ret.op = "timer"

====
